---- MODULE Spec2Model ----
(***************************************************************************)
(* A model of src/app.py, the Tacticus code scraper: one polling cycle     *)
(* (fetch_and_process_posts) fetches posts, filters them by subreddit and  *)
(* flair, extracts candidate codes from the title or the body, confirms    *)
(* them by trust or repetition, then notifies, saves and records each      *)
(* confirmed code; the __main__ loop repeats cycles until it is            *)
(* interrupted or an exception escapes.                                    *)
(*                                                                         *)
(* Texts and codes are TLA+ strings over the characters A-Z, a-z, 0-9,     *)
(* "_", "-", "!", ".", "'", "&" and the space; None (Python's None) is a marker      *)
(* string no text contains.                                                *)
(***************************************************************************)
EXTENDS Integers, Sequences, FiniteSets, TLC

(***************************************************************************)
(* Characters and Python's str methods.                                    *)
(***************************************************************************)
None == "<None>"

UpperLetters == "ABCDEFGHIJKLMNOPQRSTUVWXYZ"

LowerLetters == "abcdefghijklmnopqrstuvwxyz"

Digits == "0123456789"

Ch(s, i) == SubSeq(s, i, i)

CharsOf(s) == {Ch(s, i) : i \in 1..Len(s)}

IndexIn(s, c) == CHOOSE i \in 1..Len(s) : Ch(s, i) = c

\* str.upper() on one character
UpperChar(c) ==
    IF c \in CharsOf(LowerLetters) THEN Ch(UpperLetters, IndexIn(LowerLetters, c)) ELSE c

RECURSIVE UpperFrom(_, _)
UpperFrom(s, i) ==
    IF i > Len(s) THEN "" ELSE UpperChar(Ch(s, i)) \o UpperFrom(s, i + 1)

\* str.upper()
Upper(s) == UpperFrom(s, 1)

\* str.lower() and str.swapcase(), which re-case the texts given to the
\* extractor
LowerChar(c) ==
    IF c \in CharsOf(UpperLetters) THEN Ch(LowerLetters, IndexIn(UpperLetters, c)) ELSE c

RECURSIVE LowerFrom(_, _)
LowerFrom(s, i) ==
    IF i > Len(s) THEN "" ELSE LowerChar(Ch(s, i)) \o LowerFrom(s, i + 1)

Lower(s) == LowerFrom(s, 1)

RECURSIVE SwapCaseFrom(_, _)
SwapCaseFrom(s, i) ==
    IF i > Len(s) THEN ""
    ELSE (IF Ch(s, i) \in CharsOf(UpperLetters) THEN LowerChar(Ch(s, i))
          ELSE UpperChar(Ch(s, i))) \o SwapCaseFrom(s, i + 1)

SwapCase(s) == SwapCaseFrom(s, 1)

\* the regex class \w
IsWordChar(c) == c \in CharsOf(UpperLetters) \cup CharsOf(LowerLetters) \cup CharsOf(Digits) \cup {"_"}

\* the regex class \s (the space is the only white space of the alphabet)
SpaceChars == {" "}

\* the characters "." matches: every character of the alphabet (none is a newline)
AnyChar ==
    CharsOf(UpperLetters) \cup CharsOf(LowerLetters) \cup CharsOf(Digits)
        \cup {"_", "-", "!", ".", " ", "'", "&"}

(***************************************************************************)
(* Regular expressions, as the re module matches them.  A pattern is a     *)
(* tuple: <<"set", S>> one character of S; <<"cat", seq>> a sequence;      *)
(* <<"alt", seq>> alternatives; <<"rep", r, lo, hi>> lo to hi copies of r  *)
(* (hi = -1: unbounded); <<"bol">> ^; <<"eol">> $; <<"wb">> \b.            *)
(* Ends(re, s, i, ic) is the set of positions at which a match of re that  *)
(* starts after the first i characters of s can end; ic is re.IGNORECASE.  *)
(***************************************************************************)
RECURSIVE Ends(_, _, _, _)
RECURSIVE CatEnds(_, _, _, _, _)
RECURSIVE RepEnds(_, _, _, _, _, _, _)

AtWordBoundary(s, i) ==
    LET before == i >= 1 /\ IsWordChar(Ch(s, i))
        after == i < Len(s) /\ IsWordChar(Ch(s, i + 1))
    IN  before # after

Ends(re, s, i, ic) ==
    CASE re[1] = "set" ->
           IF i < Len(s) /\ (IF ic THEN UpperChar(Ch(s, i + 1)) ELSE Ch(s, i + 1)) \in re[2]
           THEN {i + 1} ELSE {}
      [] re[1] = "cat" -> CatEnds(re[2], 1, {i}, s, ic)
      [] re[1] = "alt" -> UNION {Ends(re[2][k], s, i, ic) : k \in DOMAIN re[2]}
      [] re[1] = "rep" -> RepEnds(re[2], re[3], re[4], {i}, 0, s, ic)
      [] re[1] = "bol" -> IF i = 0 THEN {i} ELSE {}
      [] re[1] = "eol" -> IF i = Len(s) THEN {i} ELSE {}
      [] re[1] = "wb" -> IF AtWordBoundary(s, i) THEN {i} ELSE {}

CatEnds(res, k, from, s, ic) ==
    IF k > Len(res) \/ from = {} THEN from
    ELSE CatEnds(res, k + 1, UNION {Ends(res[k], s, j, ic) : j \in from}, s, ic)

RepEnds(r, lo, hi, from, n, s, ic) ==
    LET here == IF n >= lo THEN from ELSE {}
    IN  IF from = {} \/ (hi >= 0 /\ n >= hi) \/ n > Len(s) + lo THEN here
        ELSE here \cup RepEnds(r, lo, hi, UNION {Ends(r, s, j, ic) : j \in from}, n + 1, s, ic)

\* pattern.search(s)
Search(re, s, ic) == \E i \in 0..Len(s) : Ends(re, s, i, ic) # {}

\* pattern.match(s)
Match(re, s, ic) == Ends(re, s, 0, ic) # {}

\* pattern.findall(s) for a pattern without groups: the matches from left to
\* right, each the longest at its start, the scan resuming where a match ends
RECURSIVE FindAllFrom(_, _, _)
FindAllFrom(re, s, i) ==
    IF i > Len(s) THEN <<>>
    ELSE LET e == Ends(re, s, i, FALSE)
         IN  IF e = {} THEN FindAllFrom(re, s, i + 1)
             ELSE LET j == CHOOSE m \in e : \A o \in e : o <= m
                  IN  <<SubSeq(s, i + 1, j)>> \o FindAllFrom(re, s, IF j = i THEN i + 1 ELSE j)

FindAll(re, s) == FindAllFrom(re, s, 0)

\* pattern builders
OneOf(S) == <<"set", S>>

Cat(rs) == <<"cat", rs>>

Alt(rs) == <<"alt", rs>>

Lit(w) == Cat([k \in 1..Len(w) |-> OneOf({Ch(w, k)})])

Words(ws) == Alt([k \in 1..Len(ws) |-> Lit(ws[k])])

Star(r) == <<"rep", r, 0, -1>>

Plus(r) == <<"rep", r, 1, -1>>

Opt(r) == <<"rep", r, 0, 1>>

Bol == <<"bol">>

Eol == <<"eol">>

Sp == OneOf(SpaceChars)

Dot == OneOf(AnyChar)

Wb == <<"wb">>

Digit == OneOf(CharsOf(Digits))

Letter == OneOf(CharsOf(UpperLetters))

(***************************************************************************)
(* Configuration (config.json, read at import).                            *)
(***************************************************************************)
\* config['patterns']['candidate_code_pattern']: \b[A-Z0-9]{3,25}\b
CANDIDATE_CODE_PATTERN ==
    Cat(<<Wb, <<"rep", OneOf(CharsOf(UpperLetters) \cup CharsOf(Digits)), 3, 25>>, Wb>>)

\* config['patterns']['referral_code_pattern']: [A-Z]{3}-\d{2,3}-[A-Z]{3}
REFERRAL_CODE_PATTERN ==
    Cat(<<<<"rep", Letter, 3, 3>>, Lit("-"), <<"rep", Digit, 2, 3>>, Lit("-"),
          <<"rep", Letter, 3, 3>>>>)

\* config['filtering']['ignored_words']
IGNORED_WORDS_SET == {"CODE", "CODES", "NEW", "JUST", "LOOK", "INSIDE", "FREE"}

\* config['filtering']['trusted_users']
TRUSTED_USERS == {"dev"}

\* config['reddit']['subreddits']: subreddit name -> allowed_flairs
SUBREDDITS_CONFIG ==
    [s \in {"tacticus", "codes"} |->
        [allowed_flairs |-> IF s = "tacticus" THEN <<"New Code">> ELSE <<>>]]

(***************************************************************************)
(* BODY_HINT_PATTERNS, all compiled with re.IGNORECASE: their letters are  *)
(* written in upper case and compared with the upper-cased character.      *)
(***************************************************************************)
Punct == Opt(Words(<<"!", ".">>))

BODY_HINT_PATTERNS ==
    << Cat(<<Bol, Star(Sp), Words(<<"ANOTHER", "JUST A", "ONE MORE", "A NEW", "SOME", "MORE">>),
             Plus(Sp), Lit("CODE"), Star(Sp),
             Opt(Words(<<"!", ".", "HERE", "BELOW", "INSIDE", "FOR YOU">>)), Star(Sp), Eol>>),
       Cat(<<Bol, Star(Sp), Lit("NEW"), Plus(Sp), Lit("CODE"), Star(Sp), Lit("-"), Star(Sp),
             Plus(Digit), Star(Dot), Lit("BLACKSTONE"), Star(Dot)>>),
       Cat(<<Bol, Star(Sp),
             Alt(<<Lit("THE"), Lit("LATEST"), Lit("CURRENT"),
                   Cat(<<Lit("TODAY"), Opt(Lit("'")), Opt(Lit("S"))>>)>>),
             Plus(Sp), Lit("CODE"), Plus(Sp), Lit("IS"), Plus(Sp),
             Words(<<"IN", "BELOW", "HERE", "IN THE BODY", "IN POST">>), Star(Dot)>>),
       Cat(<<Bol, Star(Sp), Lit("CHECK"), Plus(Sp), Opt(Cat(<<Lit("THE"), Plus(Sp)>>)),
             Words(<<"BODY", "POST", "DESCRIPTION", "COMMENTS">>), Plus(Sp),
             Words(<<"FOR", "FOR THE">>), Plus(Sp), Lit("CODE"), Star(Sp), Eol>>),
       Cat(<<Bol, Star(Sp), Lit("CODE"), Plus(Sp), Words(<<"IN", "INSIDE">>), Plus(Sp),
             Opt(Cat(<<Lit("THE"), Plus(Sp)>>)),
             Words(<<"POST", "BODY", "DESCRIPTION", "COMMENTS">>), Star(Sp), Punct,
             Star(Sp), Eol>>),
       Cat(<<Bol, Star(Sp), Words(<<"NEW", "LATEST", "FRESH", "RECENT">>), Plus(Sp),
             Lit("CODE"), Opt(Lit("S")), Star(Sp), Punct, Star(Sp), Eol>>),
       Cat(<<Bol, Star(Sp), Lit("FOUND"), Plus(Sp), Lit("A"), Plus(Sp),
             Opt(Cat(<<Lit("NEW"), Plus(Sp)>>)), Lit("CODE"), Star(Sp), Punct, Star(Sp), Eol>>),
       Cat(<<Bol, Star(Sp), Lit("ANYONE"), Plus(Sp), Words(<<"GOT", "HAVE", "KNOW">>), Plus(Sp),
             Words(<<"A", "ANY">>), Plus(Sp), Opt(Cat(<<Lit("NEW"), Plus(Sp)>>)), Lit("CODE")>>),
       Cat(<<Bol, Star(Sp), Lit("TITLE"), Star(Sp), Words(<<"SAYS", "HAS">>), Star(Sp),
             Lit("IT"), Star(Sp), Lit("ALL"), Star(Sp), Eol>>),
       Cat(<<Bol, Star(Sp), Lit("LOOK"), Star(Sp), Lit("INSIDE"), Star(Sp), Eol>> ) >>

(***************************************************************************)
(* extract_potential_codes_from_text                                       *)
(***************************************************************************)
RECURSIVE FilterWords(_, _)
FilterWords(words, k) ==
    IF k > Len(words) THEN <<>>
    ELSE IF Match(REFERRAL_CODE_PATTERN, words[k], FALSE) THEN FilterWords(words, k + 1)
    ELSE IF words[k] \in IGNORED_WORDS_SET THEN FilterWords(words, k + 1)
    ELSE <<words[k]>> \o FilterWords(words, k + 1)

\* extract_potential_codes_from_text with text.upper() of line 167 left out
extract_without_upper(text) ==
    IF text = None \/ text = "" THEN <<>>
    ELSE FilterWords(FindAll(CANDIDATE_CODE_PATTERN, text), 1)

\* lines 162-178
extract_potential_codes_from_text(text) ==
    IF text = None \/ text = "" THEN <<>>
    ELSE FilterWords(FindAll(CANDIDATE_CODE_PATTERN, Upper(text)), 1)

\* lines 334-339: whether some body-hint pattern is found in the title
process_body(title) ==
    \E k \in 1..Len(BODY_HINT_PATTERNS) : Search(BODY_HINT_PATTERNS[k], title, TRUE)

(***************************************************************************)
(* Sequence helpers: Python's list, set and Counter operations.            *)
(***************************************************************************)
Range(q) == {q[k] : k \in DOMAIN q}

\* the distinct elements of q in the order of their first occurrence: the order
\* in which set(q) and Counter(q).items() are walked (every later use sorts
\* the result or reads it as a set)
RECURSIVE Dedup(_)
Dedup(q) ==
    IF q = <<>> THEN <<>>
    ELSE LET front == Dedup(SubSeq(q, 1, Len(q) - 1))
             last == q[Len(q)]
         IN  IF last \in Range(front) THEN front ELSE Append(front, last)

\* Counter(q)[c]
Count(q, c) == Cardinality({k \in DOMAIN q : q[k] = c})

\* the code point order of the characters of a code
Ord(c) == IndexIn(Digits \o UpperLetters, c)

\* a < b on str
RECURSIVE StrLess(_, _)
StrLess(a, b) ==
    IF b = "" THEN FALSE
    ELSE IF a = "" THEN TRUE
    ELSE IF Ch(a, 1) # Ch(b, 1) THEN Ord(Ch(a, 1)) < Ord(Ch(b, 1))
    ELSE StrLess(SubSeq(a, 2, Len(a)), SubSeq(b, 2, Len(b)))

\* list.sort(): a stable insertion of each element after the ones not greater
RECURSIVE Sorted(_)
Sorted(q) ==
    IF q = <<>> THEN <<>>
    ELSE LET front == Sorted(SubSeq(q, 1, Len(q) - 1))
             last == q[Len(q)]
             n == Cardinality({k \in DOMAIN front : ~StrLess(last, front[k])})
         IN  SubSeq(front, 1, n) \o <<last>> \o SubSeq(front, n + 1, Len(front))

(***************************************************************************)
(* The posts a fetch can return.  A post item carries the fields lines     *)
(* 291-309 read; kind is read on the requests path only, where the title   *)
(* is None when the JSON holds null.                                       *)
(***************************************************************************)
Post(kind, subreddit, flair, author, title, selftext) ==
    [kind |-> kind, subreddit |-> subreddit, flair |-> flair, author |-> author,
     title |-> title, selftext |-> selftext]

PostPool ==
    << Post("t3", "tacticus", "New Code", "dev", "ABC123", ""),
       Post("t3", "tacticus", "New Code", "ann", "abc123 abc123", "GEMS500"),
       Post("t3", "codes", None, "bob", "Code ABC123", ""),
       Post("t3", "tacticus", "New Code", "bob", "Just a code!", "GEMS500"),
       Post("t3", "codes", "Off-topic", "ann", "look inside", "gems500 GEMS500"),
       Post("t3", "codes", None, "bob", None, "GEMS500"),
       Post("t3", "codes", "Off-topic", "dev", "new codes!", "GEMS500"),
       Post("t3", "tacticus", "Off-topic", "dev", "GEMS500", ""),
       Post("t3", "tacticus", None, "ann", "GEMS500 ABC123", ""),
       Post("t3", "other", "New Code", "dev", "ABC123 GEMS500", ""),
       Post("t3", "codes", None, "ann", "Hi", "ABC123"),
       Post("t1", "codes", None, "dev", "ABC123", "") >>

\* the most posts one fetch returns (POST_LIMIT of the configuration)
MaxPosts == 3

\* the polling cycles of one process run
MaxCycles == 3

\* the posts of the pool, counted from its first, that the fetches of a run of
\* several cycles draw from; a single cycle draws from the whole pool
RunPosts == 6

\* the codes of the ledger file when the process starts
LedgerFiles == {<<>>, <<"ABC123">>}

Increasing(q) == \A k \in 1..(Len(q) - 1) : q[k] < q[k + 1]

\* the listings: up to MaxPosts of the first n posts of the pool, in the
\* pool's order
Listings(n) ==
    LET picks == UNION {[1..m -> 1..n] : m \in 0..MaxPosts}
    IN  {[k \in DOMAIN q |-> PostPool[q[k]]] : q \in {x \in picks : Increasing(x)}}

\* multireddit.new() yields submissions (kind t3) whose title is a str
PrawListings(n) ==
    {q \in Listings(n) : \A k \in DOMAIN q : q[k].kind = "t3" /\ q[k].title # None}

\* fetch_and_process_posts_requests returns None instead of an empty list
RequestsListings(n) == Listings(n) \ {<<>>}

\* the listings of a run of several cycles and those of a single cycle
\* (evaluated once)
PrawRun == PrawListings(RunPosts)

RequestsRun == RequestsListings(RunPosts)

PrawAll == PrawListings(Len(PostPool))

RequestsAll == RequestsListings(Len(PostPool))

(***************************************************************************)
(* fetch_and_process_posts, lines 286-391: the post loop and the           *)
(* confirmation of the codes.                                              *)
(***************************************************************************)
\* lines 301-302: the requests path skips an item that is no submission
Skipped(post_item, praw) == ~praw /\ post_item.kind # "t3"

\* Accepted without the flair test
AcceptedAnyFlair(post) == post.subreddit \in DOMAIN SUBREDDITS_CONFIG

\* lines 312-320: the subreddit-specific flair filter
Accepted(post) ==
    /\ post.subreddit \in DOMAIN SUBREDDITS_CONFIG
    /\ LET allowed_flairs == SUBREDDITS_CONFIG[post.subreddit].allowed_flairs
       IN  ~(allowed_flairs # <<>> /\ post.flair \notin Range(allowed_flairs))

\* the texts of the pool, and what the extraction and the hint patterns give
\* for each of them (evaluated once)
PoolTexts == {PostPool[k].title : k \in DOMAIN PostPool} \cup {PostPool[k].selftext : k \in DOMAIN PostPool}

ExtractedFrom == [text \in PoolTexts |-> extract_potential_codes_from_text(text)]

HintedBy == [text \in PoolTexts |-> text # None /\ process_body(text)]

\* lines 328-329: the title is scanned first
TitleCodes(post) == ExtractedFrom[post.title]

\* line 336: pattern.search(None) raises TypeError
SearchRaises(post) == TitleCodes(post) = <<>> /\ post.title = None

\* ScanBody without the hint patterns
ScanBodyUnhinted(post) == TitleCodes(post) = <<>>

\* lines 332-341: the body is scanned when the title has no code and hints at it
ScanBody(post) == TitleCodes(post) = <<>> /\ HintedBy[post.title]

\* lines 325-350
current_post_extracted_codes(post) ==
    IF TitleCodes(post) # <<>> THEN TitleCodes(post)
    ELSE IF ScanBody(post) THEN ExtractedFrom[post.selftext]
    ELSE <<>>

\* NewBuckets with the regular bucket kept from the previous run
NewBucketsCarried(carried) ==
    [trusted_codes_this_run |-> <<>>, all_potential_codes_this_run |-> carried,
     post_log |-> <<>>, raised |-> FALSE]

\* lines 286-288: the lists of a run start empty; carried is what the previous
\* run counted once in all_potential_codes_this_run
NewBuckets(carried) ==
    [trusted_codes_this_run |-> <<>>, all_potential_codes_this_run |-> <<>>,
     post_log |-> <<>>, raised |-> FALSE]

\* Route without the test of the author
RouteAllRegular(b, post, codes) ==
    [b EXCEPT !.all_potential_codes_this_run = @ \o Dedup(codes)]

\* Route without set() of line 352: every occurrence of a code is routed
RouteEveryOccurrence(b, post, codes) ==
    IF post.author \in TRUSTED_USERS
    THEN [b EXCEPT !.trusted_codes_this_run = @ \o codes]
    ELSE [b EXCEPT !.all_potential_codes_this_run = @ \o codes]

\* lines 352-360: the distinct codes of one post go to the author's bucket
Route(b, post, codes) ==
    IF post.author \in TRUSTED_USERS
    THEN [b EXCEPT !.trusted_codes_this_run = @ \o Dedup(codes)]
    ELSE [b EXCEPT !.all_potential_codes_this_run = @ \o Dedup(codes)]

\* lines 290-360: the loop over the posts; post_log records, for each post that
\* passed the filter, what was scanned and the codes of
\* current_post_extracted_codes
RECURSIVE PostLoop(_, _, _, _)
PostLoop(listing, k, praw, b) ==
    IF k > Len(listing) \/ b.raised THEN b
    ELSE LET post == listing[k]
         IN  IF Skipped(post, praw) \/ ~Accepted(post) THEN PostLoop(listing, k + 1, praw, b)
             ELSE IF SearchRaises(post) THEN [b EXCEPT !.raised = TRUE]
             ELSE LET codes == current_post_extracted_codes(post)
                      entry == [at |-> k, body |-> ScanBody(post), codes |-> codes]
                  IN  PostLoop(listing, k + 1, praw,
                               Route([b EXCEPT !.post_log = Append(@, entry)], post, codes))

\* line 381: the repetition threshold
ConfirmThreshold == 2

\* KeepNew without the membership test of line 369
KeepNewUnchecked(codes, notified) == codes

\* lines 366-373: the trusted codes not yet notified
RECURSIVE KeepNew(_, _)
KeepNew(codes, notified) ==
    IF codes = <<>> THEN <<>>
    ELSE (IF Head(codes) \notin notified THEN <<Head(codes)>> ELSE <<>>)
             \o KeepNew(Tail(codes), notified)

\* KeepCounted with the count compared to 1
KeepCountedOnce(codes, all, notified) ==
    SelectSeq(codes, LAMBDA c : Count(all, c) >= 1 /\ c \notin notified)

\* lines 376-387: the regular codes counted at least ConfirmThreshold times
RECURSIVE KeepCounted(_, _, _)
KeepCounted(codes, all, notified) ==
    IF codes = <<>> THEN <<>>
    ELSE (IF Count(all, Head(codes)) >= ConfirmThreshold /\ Head(codes) \notin notified
          THEN <<Head(codes)>> ELSE <<>>) \o KeepCounted(Tail(codes), all, notified)

\* Confirmed without the sort of line 394
ConfirmedUnsorted(trusted, all, notified) ==
    KeepNew(Dedup(trusted), notified) \o KeepCounted(Dedup(all), all, notified)

\* lines 364-387 and 394: newly_confirmed_codes, sorted
Confirmed(trusted, all, notified) ==
    Sorted(KeepNew(Dedup(trusted), notified) \o KeepCounted(Dedup(all), all, notified))

(***************************************************************************)
(* The process: __main__ (lines 407-439) and the notification loop of      *)
(* fetch_and_process_posts (lines 393-404).                                *)
(*   pc: "fetch" a cycle is about to start; "notify" notify_ntfy is about  *)
(*   to be called for newly_confirmed_codes[idx]; "save" it returned True  *)
(*   and save_notified_code is next; "add" notified_codes_set.add is next; *)
(*   "sleep" the cycle returned; "stopped" the process ended.              *)
(* History variables: attempts, the calls of notify_ntfy of the cycle;     *)
(* start, the set and the ledger when the cycle started; start_ledger, the *)
(* ledger when the process started; ever_ok, the codes notify_ntfy         *)
(* returned True for; prev_once, the codes the previous cycle counted      *)
(* once in its regular bucket; exit, why the process stopped.              *)
(***************************************************************************)
VARIABLES pc, notified_codes_set, ledger, posts, using_praw, fetch_log,
          trusted_codes_this_run, all_potential_codes_this_run, post_log,
          newly_confirmed_codes, idx, saved, cycle, attempts, start, start_ledger,
          ever_ok, prev_once, rerun, exit, extraction

vars == <<pc, notified_codes_set, ledger, posts, using_praw, fetch_log,
          trusted_codes_this_run, all_potential_codes_this_run, post_log,
          newly_confirmed_codes, idx, saved, cycle, attempts, start, start_ledger,
          ever_ok, prev_once, rerun, exit, extraction>>

locals == <<posts, using_praw, fetch_log, trusted_codes_this_run,
            all_potential_codes_this_run, post_log, newly_confirmed_codes, idx, saved,
            attempts>>

history == <<cycle, start, start_ledger, prev_once, rerun>>

\* the state of the process: every variable but extraction
process == <<pc, notified_codes_set, ledger, locals, ever_ok, history, exit>>

\* extraction when no text is under study
NoExtraction == [text |-> None, recased |-> None, done |-> FALSE,
                 potential_codes |-> <<>>, recased_codes |-> <<>>]

\* load_notified_codes, lines 122-131: the codes of the file, or the empty set
\* when reading it raises IOError
load_notified_codes(file, readable) == IF readable THEN Range(file) ELSE {}

\* lines 419-427: the process when the first cycle starts
StartOfProcess ==
    /\ \E file \in LedgerFiles, readable \in BOOLEAN :
          /\ ledger = file
          /\ start_ledger = file
          /\ notified_codes_set = load_notified_codes(file, readable)
          /\ start = [set |-> load_notified_codes(file, readable), ledger |-> file]
    /\ pc = "fetch"
    /\ posts = <<>>
    /\ using_praw = FALSE
    /\ fetch_log = <<>>
    /\ trusted_codes_this_run = <<>>
    /\ all_potential_codes_this_run = <<>>
    /\ post_log = <<>>
    /\ newly_confirmed_codes = <<>>
    /\ idx = 0
    /\ saved = FALSE
    /\ cycle = 1
    /\ attempts = <<>>
    /\ ever_ok = {}
    /\ prev_once = <<>>
    /\ rerun = FALSE
    /\ exit = "running"

\* the state when the first cycle starts
Init == StartOfProcess /\ extraction = NoExtraction

\* the locals of fetch_and_process_posts are gone when it returns or is left
\* by an exception
NoLocals ==
    /\ posts' = <<>>
    /\ using_praw' = FALSE
    /\ fetch_log' = <<>>
    /\ trusted_codes_this_run' = <<>>
    /\ all_potential_codes_this_run' = <<>>
    /\ post_log' = <<>>
    /\ newly_confirmed_codes' = <<>>
    /\ idx' = 0
    /\ saved' = FALSE
    /\ attempts' = <<>>

\* Unhandled with the try statement inside the while loop: the loop goes on
UnhandledInsideLoop ==
    /\ pc' = "sleep"
    /\ exit' = "exception"

\* lines 436-439: an exception leaves the while loop; it is logged and the
\* process ends
Unhandled ==
    /\ pc' = "stopped"
    /\ exit' = "exception"

\* lines 269-284: the transports tried by a cycle, in order, and whether each
\* returned posts; the requests fallback is called when PRAW returned None
Transports(praw, fetched) ==
    IF praw THEN <<[transport |-> "praw", ok |-> TRUE]>>
    ELSE <<[transport |-> "praw", ok |-> FALSE], [transport |-> "requests", ok |-> fetched]>>

\* lines 286-404 up to the first call of notify_ntfy, for the fetched listing
Process(listing, praw) ==
    \E b \in {PostLoop(listing, 1, praw, NewBuckets(prev_once))} :
    \E newly \in {Confirmed(b.trusted_codes_this_run, b.all_potential_codes_this_run,
                            notified_codes_set)} :
        IF b.raised
        THEN /\ Unhandled
             /\ NoLocals
             /\ UNCHANGED <<extraction, notified_codes_set, ledger, ever_ok, history>>
        ELSE /\ posts' = listing
             /\ using_praw' = praw
             /\ fetch_log' = Transports(praw, TRUE)
             /\ trusted_codes_this_run' = b.trusted_codes_this_run
             /\ all_potential_codes_this_run' = b.all_potential_codes_this_run
             /\ post_log' = b.post_log
             /\ newly_confirmed_codes' = newly
             /\ idx' = 1
             /\ pc' = IF newly = <<>> THEN "sleep" ELSE "notify"
             /\ UNCHANGED <<extraction, notified_codes_set, ledger, saved, attempts, ever_ok,
                            history, exit>>

\* lines 269-273: PRAW returned one of the listings
FetchPraw(listings) ==
    /\ pc = "fetch"
    /\ \E listing \in listings : Process(listing, TRUE)

\* lines 274-281: PRAW failed and the requests fallback returned one of the
\* listings
FetchRequests(listings) ==
    /\ pc = "fetch"
    /\ \E listing \in listings : Process(listing, FALSE)

CyclePraw == FetchPraw(PrawRun)

CycleRequests == FetchRequests(RequestsRun)

OneCyclePraw == FetchPraw(PrawAll)

OneCycleRequests == FetchRequests(RequestsAll)

\* FetchFails with an exception raised where line 284 returns
FetchFailsRaises ==
    /\ pc = "fetch"
    /\ Unhandled
    /\ fetch_log' = Transports(FALSE, FALSE)
    /\ UNCHANGED <<extraction, notified_codes_set, ledger, posts, using_praw,
                   trusted_codes_this_run, all_potential_codes_this_run, post_log,
                   newly_confirmed_codes, idx, saved, attempts, ever_ok, history>>

\* lines 282-284: both fetches failed
FetchFails ==
    /\ pc = "fetch"
    /\ pc' = "sleep"
    /\ fetch_log' = Transports(FALSE, FALSE)
    /\ UNCHANGED <<extraction, notified_codes_set, ledger, posts, using_praw,
                   trusted_codes_this_run, all_potential_codes_this_run, post_log,
                   newly_confirmed_codes, idx, saved, attempts, ever_ok, history, exit>>

\* lines 395-400: where the loop goes after the code at idx
AfterCode == IF idx < Len(newly_confirmed_codes) THEN "notify" ELSE "sleep"

\* line 396: notify_ntfy returned True
NotifyOk ==
    /\ pc = "notify"
    /\ attempts' = Append(attempts, [code |-> newly_confirmed_codes[idx], ok |-> TRUE])
    /\ ever_ok' = ever_ok \cup {newly_confirmed_codes[idx]}
    /\ pc' = "save"
    /\ UNCHANGED <<extraction, notified_codes_set, ledger, posts, using_praw, fetch_log,
                   trusted_codes_this_run, all_potential_codes_this_run, post_log,
                   newly_confirmed_codes, idx, saved, history, exit>>

\* NotifyFails with the result of notify_ntfy ignored: the code is saved and added
NotifyFailsIgnored ==
    /\ pc = "notify"
    /\ attempts' = Append(attempts, [code |-> newly_confirmed_codes[idx], ok |-> FALSE])
    /\ pc' = "save"
    /\ UNCHANGED <<extraction, notified_codes_set, ledger, posts, using_praw, fetch_log,
                   trusted_codes_this_run, all_potential_codes_this_run, post_log,
                   newly_confirmed_codes, idx, saved, ever_ok, history, exit>>

\* lines 396 and 399-400: notify_ntfy returned False
NotifyFails ==
    /\ pc = "notify"
    /\ attempts' = Append(attempts, [code |-> newly_confirmed_codes[idx], ok |-> FALSE])
    /\ pc' = AfterCode
    /\ idx' = idx + 1
    /\ UNCHANGED <<extraction, notified_codes_set, ledger, posts, using_praw, fetch_log,
                   trusted_codes_this_run, all_potential_codes_this_run, post_log,
                   newly_confirmed_codes, saved, ever_ok, history, exit>>

\* save_notified_code with the file opened in mode 'w': the line replaces the file
save_truncating(code, file, writable) == IF writable THEN <<Upper(code)>> ELSE file

\* save_notified_code, lines 133-140: the code is appended to the file, or
\* IOError is caught and logged
save_notified_code(code, file, writable) == IF writable THEN Append(file, Upper(code)) ELSE file

\* line 397
Save ==
    /\ pc = "save"
    /\ \E writable \in BOOLEAN :
          /\ ledger' = save_notified_code(newly_confirmed_codes[idx], ledger, writable)
          /\ saved' = writable
    /\ pc' = "add"
    /\ UNCHANGED <<extraction, notified_codes_set, posts, using_praw, fetch_log,
                   trusted_codes_this_run, all_potential_codes_this_run, post_log,
                   newly_confirmed_codes, idx, attempts, ever_ok, history, exit>>

\* Add that skips the code whose save failed
AddIfSaved ==
    /\ pc = "add"
    /\ notified_codes_set' =
          IF saved THEN notified_codes_set \cup {newly_confirmed_codes[idx]} ELSE notified_codes_set
    /\ pc' = AfterCode
    /\ idx' = idx + 1
    /\ UNCHANGED <<extraction, ledger, posts, using_praw, fetch_log,
                   trusted_codes_this_run, all_potential_codes_this_run, post_log,
                   newly_confirmed_codes, saved, attempts, ever_ok, history, exit>>

\* Add with line 398 left out: the set is not updated
AddNothing ==
    /\ pc = "add"
    /\ pc' = AfterCode
    /\ idx' = idx + 1
    /\ UNCHANGED <<extraction, notified_codes_set, ledger, posts, using_praw, fetch_log,
                   trusted_codes_this_run, all_potential_codes_this_run, post_log,
                   newly_confirmed_codes, saved, attempts, ever_ok, history, exit>>

\* line 398
Add ==
    /\ pc = "add"
    /\ notified_codes_set' = notified_codes_set \cup {newly_confirmed_codes[idx]}
    /\ pc' = AfterCode
    /\ idx' = idx + 1
    /\ UNCHANGED <<extraction, ledger, posts, using_praw, fetch_log,
                   trusted_codes_this_run, all_potential_codes_this_run, post_log,
                   newly_confirmed_codes, saved, attempts, ever_ok, history, exit>>

\* the codes of q that occur in it once
SeenOnce(q) == SelectSeq(Dedup(q), LAMBDA c : Count(q, c) = 1)

\* lines 431-433: the cycle returned; after the sleep the next one starts with
\* the returned set and fresh locals
Sleep ==
    /\ pc = "sleep"
    /\ cycle < MaxCycles
    /\ pc' = "fetch"
    /\ cycle' = cycle + 1
    /\ start' = [set |-> notified_codes_set, ledger |-> ledger]
    /\ prev_once' = Sorted(SeenOnce(all_potential_codes_this_run))
    /\ rerun' = FALSE
    /\ NoLocals
    /\ UNCHANGED <<extraction, notified_codes_set, ledger, start_ledger, ever_ok, exit>>

\* lines 434-435 and 438-439: KeyboardInterrupt, at any point of the loop
Interrupt ==
    /\ pc # "stopped"
    /\ pc' = "stopped"
    /\ exit' = "interrupt"
    /\ NoLocals
    /\ UNCHANGED <<extraction, notified_codes_set, ledger, ever_ok, history>>

Next ==
    \/ CyclePraw
    \/ CycleRequests
    \/ FetchFails
    \/ NotifyOk
    \/ NotifyFails
    \/ Save
    \/ Add
    \/ Sleep
    \/ Interrupt

\* a run of the process: cycles over the first RunPosts posts of the pool
Spec == Init /\ [][Next]_vars

NextCycle ==
    \/ OneCyclePraw
    \/ OneCycleRequests
    \/ FetchFails
    \/ NotifyOk
    \/ NotifyFails
    \/ Save
    \/ Add
    \/ Interrupt

\* the first cycle of the process, over the whole pool
SpecCycle == Init /\ [][NextCycle]_vars

\* every call of notify_ntfy of the cycle returned True and every call of
\* save_notified_code appended its line
AllSucceeded ==
    /\ \A k \in DOMAIN attempts : attempts[k].ok
    /\ Len(ledger) - Len(start.ledger) = Len(attempts)

\* lines 431-433 when the forum does not change during the sleep: posts and
\* using_praw keep, while pc = "fetch", the listing the next fetch returns
\* and its transport; cycle stops counting at MaxCycles
SleepSame ==
    /\ pc = "sleep"
    /\ pc' = "fetch"
    /\ cycle' = IF cycle < MaxCycles THEN cycle + 1 ELSE cycle
    /\ start' = [set |-> notified_codes_set, ledger |-> ledger]
    /\ prev_once' = Sorted(SeenOnce(all_potential_codes_this_run))
    /\ rerun' = AllSucceeded
    /\ fetch_log' = <<>>
    /\ trusted_codes_this_run' = <<>>
    /\ all_potential_codes_this_run' = <<>>
    /\ post_log' = <<>>
    /\ newly_confirmed_codes' = <<>>
    /\ idx' = 0
    /\ saved' = FALSE
    /\ attempts' = <<>>
    /\ UNCHANGED <<extraction, notified_codes_set, ledger, posts, using_praw, start_ledger,
                   ever_ok, exit>>

\* lines 269-281 in the first cycle
FirstPraw == cycle = 1 /\ CyclePraw

FirstRequests == cycle = 1 /\ CycleRequests

\* lines 269-281 in a later cycle: the fetch returns the listing of the cycle
\* before
Refetch ==
    /\ pc = "fetch"
    /\ cycle > 1
    /\ Process(posts, using_praw)

NextRepeat ==
    \/ FirstPraw
    \/ FirstRequests
    \/ Refetch
    \/ NotifyOk
    \/ NotifyFails
    \/ Save
    \/ Add
    \/ SleepSame

(***************************************************************************)
(* extract_potential_codes_from_text alone (lines 162-178): a text made of *)
(* at most MaxPieces pieces and a re-casing of it are given to the         *)
(* function; extraction records both texts and both results.               *)
(***************************************************************************)
MaxPieces == 5

TextPieces == {"aBc", "12", "-", "Code"}

RECURSIVE TextsOf(_)
TextsOf(n) ==
    IF n = 0 THEN {""}
    ELSE LET shorter == TextsOf(n - 1)
         IN  shorter \cup {t \o piece : t \in shorter, piece \in TextPieces}

Texts == TextsOf(MaxPieces)

Recasings(text) == {Upper(text), Lower(text), SwapCase(text)}

InitExtract ==
    /\ StartOfProcess
    /\ ledger = <<>>
    /\ \E text \in Texts : \E recased \in Recasings(text) :
          extraction = [NoExtraction EXCEPT !.text = text, !.recased = recased]

\* the function is called for the text and for its re-casing
Extract ==
    /\ ~extraction.done
    /\ extraction.text # None
    /\ extraction' =
          [extraction EXCEPT
              !.done = TRUE,
              !.potential_codes = extract_potential_codes_from_text(extraction.text),
              !.recased_codes = extract_potential_codes_from_text(extraction.recased)]
    /\ UNCHANGED process

NextExtract == Extract

SpecExtract == InitExtract /\ [][NextExtract]_vars

\* a run of the process whose cycles all fetch the listing of the first one
SpecRepeat == Init /\ [][NextRepeat]_vars

\* line 396 for code c: notify_ntfy returned True for it
NotifyOkFor(c) ==
    /\ pc = "notify"
    /\ newly_confirmed_codes[idx] = c
    /\ NotifyOk

\* the process is not interrupted: a fetch ends (the requests have a timeout,
\* line 236), so the process is not at "fetch" for ever;
\* fetch_and_process_posts goes on from call to call (lines 395-404) and
\* __main__ from cycle to cycle (lines 430-433); notify_ntfy does not return
\* False for ever for a code it is called for again and again
Fairness ==
    /\ []<>(pc # "fetch")
    /\ WF_vars(NotifyOk \/ NotifyFails \/ Save \/ Add \/ SleepSame)
    /\ \A c \in UNION {Range(ExtractedFrom[t]) : t \in PoolTexts} : SF_vars(NotifyOkFor(c))

\* SpecRepeat with the process and the notifier making progress
SpecLive == Init /\ [][NextRepeat]_vars /\ Fairness

(***************************************************************************)
(* What the claims speak of.                                               *)
(***************************************************************************)
\* the posts of the cycle have been processed and the process is running
InCycle == pc \in {"notify", "save", "add", "sleep"}

\* the codes post k of the listing surfaces: none when it is skipped or rejected
Surfaced(k) ==
    IF Skipped(posts[k], using_praw) \/ ~Accepted(posts[k]) THEN {}
    ELSE Range(current_post_extracted_codes(posts[k]))

TrustedPosts(c) == {k \in DOMAIN posts : c \in Surfaced(k) /\ posts[k].author \in TRUSTED_USERS}

RegularPosts(c) == {k \in DOMAIN posts : c \in Surfaced(k) /\ posts[k].author \notin TRUSTED_USERS}

AllCodes == UNION {Range(ExtractedFrom[t]) : t \in PoolTexts}

\* the codes notify_ntfy was called for in this cycle, and those it returned True for
Sent == {attempts[k].code : k \in DOMAIN attempts}

SentOk == {attempts[k].code : k \in {j \in DOMAIN attempts : attempts[j].ok}}

\* the lines appended to the ledger since the cycle started, and since the
\* process started
AppendedThisCycle == SubSeq(ledger, Len(start.ledger) + 1, Len(ledger))

AppendedThisRun == SubSeq(ledger, Len(start_ledger) + 1, Len(ledger))

(***************************************************************************)
(* C1: a code that is in notified_codes_set when a cycle starts is not     *)
(* sent to notify_ntfy in that cycle, and between cycles every code        *)
(* notify_ntfy returned True for is in notified_codes_set, so no later     *)
(* cycle sends it again.                                                   *)
(***************************************************************************)
C1_NotifiedNeverResent ==
    /\ \A k \in DOMAIN attempts : attempts[k].code \notin start.set
    /\ pc \in {"fetch", "sleep"} => ever_ok \subseteq notified_codes_set
    /\ pc = "fetch" => ever_ok \subseteq start.set

\* a later cycle in which a code notified before is surfaced by a trusted post
\* or by two regular posts while another code is sent
C1_Witness ==
    /\ pc = "sleep"
    /\ attempts # <<>>
    /\ \E c \in start.set \cap ever_ok :
          TrustedPosts(c) # {} \/ Cardinality(RegularPosts(c)) >= 2

(***************************************************************************)
(* C2: the confirmed codes of a cycle hold no code twice, so notify_ntfy   *)
(* is called at most once for a code in a cycle.                           *)
(***************************************************************************)
C2_ConfirmedOnce ==
    /\ \A i, j \in DOMAIN newly_confirmed_codes :
          i # j => newly_confirmed_codes[i] # newly_confirmed_codes[j]
    /\ \A i, j \in DOMAIN attempts : i # j => attempts[i].code # attempts[j].code

(***************************************************************************)
(* C3: a code is added to notified_codes_set and appended to the ledger    *)
(* only after notify_ntfy returned True for it in the current cycle, at    *)
(* most once for each such call; and at every point, also after an         *)
(* interrupt, every line appended since the process started is a code      *)
(* with a successful notification.                                         *)
(***************************************************************************)
C3_PersistOnlyAfterSuccess ==
    /\ Len(ledger) >= Len(start_ledger)
    /\ SubSeq(ledger, 1, Len(start_ledger)) = start_ledger
    /\ Range(AppendedThisRun) \subseteq ever_ok
    /\ notified_codes_set \ Range(start_ledger) \subseteq ever_ok
    /\ pc # "stopped" =>
          /\ notified_codes_set \ start.set \subseteq SentOk
          /\ SubSeq(ledger, 1, Len(start.ledger)) = start.ledger
          /\ \A c \in AllCodes :
                Count(AppendedThisCycle, c)
                    <= Cardinality({k \in DOMAIN attempts : attempts[k].ok /\ attempts[k].code = c})

\* a cycle ended in which one code was notified and recorded and the
\* notification of another failed
C3_Witness ==
    /\ pc = "sleep"
    /\ \E k \in DOMAIN attempts :
          /\ ~attempts[k].ok
          /\ attempts[k].code \notin notified_codes_set
          /\ attempts[k].code \notin Range(ledger)
    /\ \E k \in DOMAIN attempts :
          /\ attempts[k].ok
          /\ attempts[k].code \in notified_codes_set
          /\ attempts[k].code \in Range(AppendedThisCycle)

(***************************************************************************)
(* C4 as claimed: when notify_ntfy returned True for a code and its save   *)
(* failed, the code is not added to notified_codes_set.                    *)
(***************************************************************************)
SaveFailedFor(k) ==
    /\ pc \in {"notify", "sleep"}
    /\ k = idx - 1
    /\ k >= 1
    /\ attempts[Len(attempts)].ok
    /\ ~saved

C4_NotAddedWhenSaveFails ==
    \A k \in DOMAIN newly_confirmed_codes :
        SaveFailedFor(k) => newly_confirmed_codes[k] \notin notified_codes_set

(***************************************************************************)
(* C4 as amended: when notify_ntfy returned True for a code and its save   *)
(* failed, the code is added to notified_codes_set all the same; a code    *)
(* notified in an earlier cycle, saved or not, is not confirmed again.     *)
(***************************************************************************)
C4_AddedWhenSaveFails ==
    /\ \A k \in DOMAIN newly_confirmed_codes :
          SaveFailedFor(k) => newly_confirmed_codes[k] \in notified_codes_set
    /\ InCycle => \A c \in (ever_ok \ SentOk) \ Range(AppendedThisRun) :
                     c \notin Range(newly_confirmed_codes)

\* a later cycle in which a trusted post surfaces a code that was notified
\* before and is in no line of the ledger
C4_Witness ==
    /\ pc = "sleep"
    /\ \E c \in ever_ok \ SentOk :
          /\ c \notin Range(ledger)
          /\ TrustedPosts(c) # {}
          /\ c \notin Sent

(***************************************************************************)
(* C5 as claimed: an exception raised during a cycle does not end the      *)
(* process.                                                                *)
(***************************************************************************)
C5_ExceptionDoesNotStop == ~(pc = "stopped" /\ exit = "exception")

(***************************************************************************)
(* C5 as amended: an exception raised during a cycle ends the process: it  *)
(* is caught outside the loop, and no sleep and no cycle follow it.        *)
(***************************************************************************)
C5_ExceptionStops == exit = "exception" => pc = "stopped"

\* the search of a hint pattern in a title that is None has raised
C5_Witness == exit = "exception" /\ cycle = MaxCycles

(***************************************************************************)
(* C6: a code surfaced by one accepted post of a trusted author, and not   *)
(* in notified_codes_set when the cycle starts, is confirmed; a code       *)
(* surfaced by one accepted post of another author, and by no trusted      *)
(* post, is not.                                                           *)
(***************************************************************************)
C6_TrustBypass ==
    InCycle => \A c \in AllCodes :
        /\ (TrustedPosts(c) # {} /\ c \notin start.set) => c \in Range(newly_confirmed_codes)
        /\ (TrustedPosts(c) = {} /\ Cardinality(RegularPosts(c)) = 1)
               => c \notin Range(newly_confirmed_codes)

\* one post of a trusted author confirms a code, one post of another author
\* does not confirm another code
C6_Witness ==
    /\ pc = "sleep"
    /\ \E c, d \in AllCodes :
          /\ Cardinality(TrustedPosts(c)) = 1 /\ RegularPosts(c) = {}
          /\ c \in SentOk
          /\ TrustedPosts(d) = {} /\ Cardinality(RegularPosts(d)) = 1
          /\ d \notin Sent

(***************************************************************************)
(* C7: a code no trusted post surfaces, and not in notified_codes_set when *)
(* the cycle starts, is confirmed exactly when at least 2 accepted posts   *)
(* of the cycle surface it.                                                *)
(***************************************************************************)
C7_RepetitionThreshold ==
    InCycle => \A c \in AllCodes :
        (TrustedPosts(c) = {} /\ c \notin start.set) =>
            (c \in Range(newly_confirmed_codes) <=> Cardinality(RegularPosts(c)) >= 2)

\* two posts of authors that are not trusted confirm a code; one post does
\* not confirm another
C7_Witness ==
    /\ pc = "sleep"
    /\ \E c, d \in AllCodes :
          /\ TrustedPosts(c) = {} /\ Cardinality(RegularPosts(c)) = 2 /\ c \in SentOk
          /\ TrustedPosts(d) = {} /\ Cardinality(RegularPosts(d)) = 1 /\ d \notin Sent
          /\ d \notin start.set

(***************************************************************************)
(* C8: a code that one regular post surfaced in the previous cycle and one *)
(* regular post surfaces in this cycle, and no trusted post, is not        *)
(* confirmed; nor is any code one regular post alone surfaces.             *)
(***************************************************************************)
C8_CountResets ==
    InCycle => \A c \in AllCodes :
        (TrustedPosts(c) = {} /\ Cardinality(RegularPosts(c)) = 1) =>
            /\ c \notin Range(newly_confirmed_codes)
            /\ Count(all_potential_codes_this_run, c) = 1

\* the second of two cycles that each see the code in one regular post
C8_Witness ==
    /\ pc = "sleep"
    /\ \E c \in Range(prev_once) :
          /\ TrustedPosts(c) = {}
          /\ Cardinality(RegularPosts(c)) = 1
          /\ c \notin notified_codes_set
          /\ c \notin Sent

(***************************************************************************)
(* C9: a post contributes codes only if its subreddit is a key of          *)
(* SUBREDDITS_CONFIG and the allowed flairs of that subreddit are empty or *)
(* hold the flair of the post (None included): every post the loop         *)
(* extracted from is such a post, and each code of a bucket occurs there   *)
(* once for each such post of the bucket's authors that yields it.         *)
(***************************************************************************)
PassesFilter(post) ==
    /\ post.subreddit \in DOMAIN SUBREDDITS_CONFIG
    /\ \/ SUBREDDITS_CONFIG[post.subreddit].allowed_flairs = <<>>
       \/ \E k \in DOMAIN SUBREDDITS_CONFIG[post.subreddit].allowed_flairs :
             SUBREDDITS_CONFIG[post.subreddit].allowed_flairs[k] = post.flair

\* the codes some text of the post holds
InText(post) == Range(ExtractedFrom[post.title]) \cup Range(ExtractedFrom[post.selftext])

PassingPosts(c, trusted) ==
    {k \in DOMAIN posts : /\ PassesFilter(posts[k])
                          /\ c \in InText(posts[k])
                          /\ (posts[k].author \in TRUSTED_USERS) = trusted}

C9_PostFilter ==
    InCycle =>
        /\ \A k \in DOMAIN post_log : PassesFilter(posts[post_log[k].at])
        /\ \A c \in AllCodes :
              /\ Count(trusted_codes_this_run, c) <= Cardinality(PassingPosts(c, TRUE))
              /\ Count(all_potential_codes_this_run, c) <= Cardinality(PassingPosts(c, FALSE))

\* a cycle with a post of an unknown subreddit, a post with a flair outside
\* the allowed ones and a post without flair in a subreddit that allows any,
\* where only the last contributes
C9_Witness ==
    /\ pc = "sleep"
    /\ Len(post_log) = 1
    /\ posts[post_log[1].at].flair = None
    /\ post_log[1].codes # <<>>
    /\ \E i, j \in DOMAIN posts :
          /\ posts[i].subreddit \notin DOMAIN SUBREDDITS_CONFIG
          /\ posts[j].subreddit \in DOMAIN SUBREDDITS_CONFIG
          /\ posts[j].flair \notin {None, "New Code"}
          /\ InText(posts[i]) # {}
          /\ InText(posts[j]) # {}
          /\ InText(posts[j]) \cap (Range(trusted_codes_this_run)
                                       \cup Range(all_potential_codes_this_run)) = {}

(***************************************************************************)
(* C10: for every post that passed the filter, the body is scanned exactly *)
(* when the title yields no code and matches a body-hint pattern; the      *)
(* codes of the post are those of its title, or else those of its scanned  *)
(* body, never both, and none when the title yields no code and matches no *)
(* pattern.                                                                *)
(***************************************************************************)
C10_BodyHintGating ==
    InCycle => \A k \in DOMAIN post_log :
        LET post == posts[post_log[k].at]
            title_codes == ExtractedFrom[post.title]
            hinted == HintedBy[post.title]
        IN  /\ post_log[k].body <=> (title_codes = <<>> /\ hinted)
            /\ title_codes # <<>> => post_log[k].codes = title_codes
            /\ (title_codes = <<>> /\ hinted) => post_log[k].codes = ExtractedFrom[post.selftext]
            /\ (title_codes = <<>> /\ ~hinted) => post_log[k].codes = <<>>
            /\ Range(post_log[k].codes) \subseteq
                   Range(all_potential_codes_this_run) \cup Range(trusted_codes_this_run)

\* a cycle with a post whose title has a code and whose body has another, a
\* post whose title hints at its body, and a post whose title neither has a
\* code nor hints, its body holding one
C10_Witness ==
    /\ pc = "sleep"
    /\ \E i, j, k \in DOMAIN post_log :
          /\ ~post_log[i].body
          /\ post_log[i].codes # <<>>
          /\ ExtractedFrom[posts[post_log[i].at].selftext] # <<>>
          /\ Range(ExtractedFrom[posts[post_log[i].at].selftext]) \cap Range(post_log[i].codes) = {}
          /\ post_log[j].body
          /\ post_log[j].codes # <<>>
          /\ ~post_log[k].body
          /\ post_log[k].codes = <<>>
          /\ ExtractedFrom[posts[post_log[k].at].selftext] # <<>>

(***************************************************************************)
(* C11: the calls of notify_ntfy of one cycle are made in ascending        *)
(* lexicographic order of the codes: no call is for a code that is less    *)
(* than the code of an earlier call of the cycle.                          *)
(***************************************************************************)
C11_AscendingOrder ==
    \A i, j \in DOMAIN attempts :
        i < j => ~StrLess(attempts[j].code, attempts[i].code)

\* a cycle that called notify_ntfy for two codes, the lesser one confirmed by
\* regular posts that come after the trusted post of the greater one
C11_Witness ==
    /\ pc = "sleep"
    /\ \E i, j \in DOMAIN attempts : StrLess(attempts[i].code, attempts[j].code)
    /\ \E c, d \in Sent :
          /\ StrLess(c, d)
          /\ TrustedPosts(d) # {}
          /\ TrustedPosts(c) = {}
          /\ Cardinality(RegularPosts(c)) >= 2

(***************************************************************************)
(* C12: a cycle that runs on the posts of the cycle before it, every       *)
(* notification and every ledger write of that cycle having succeeded,     *)
(* confirms no code, calls notify_ntfy for none and returns                *)
(* notified_codes_set and the ledger as it got them.                       *)
(***************************************************************************)
C12_Idempotent ==
    (rerun /\ pc # "fetch") =>
        /\ newly_confirmed_codes = <<>>
        /\ attempts = <<>>
        /\ notified_codes_set = start.set
        /\ ledger = start.ledger
        /\ pc = "sleep"

\* the second run over posts that confirm a code the first run notified
C12_Witness ==
    /\ rerun
    /\ pc = "sleep"
    /\ start.ledger # start_ledger
    /\ \E c \in ever_ok : TrustedPosts(c) # {} \/ Cardinality(RegularPosts(c)) >= 2

\* both transports were tried in this cycle and neither returned posts
BothFailed == fetch_log # <<>> /\ \A k \in DOMAIN fetch_log : ~fetch_log[k].ok

(***************************************************************************)
(* C13: the requests fallback is tried only after PRAW failed in the same  *)
(* cycle; a cycle in which both failed confirms and notifies nothing,      *)
(* leaves notified_codes_set and the ledger as they were when it started,  *)
(* and returns to the loop of __main__, which sleeps and starts the next   *)
(* cycle.                                                                  *)
(***************************************************************************)
C13_FetchFailureRecoverable ==
    /\ \A k \in DOMAIN fetch_log :
          fetch_log[k].transport = "requests" =>
              \E j \in 1..(k - 1) : fetch_log[j].transport = "praw" /\ ~fetch_log[j].ok
    /\ \A k \in DOMAIN fetch_log :
          (fetch_log[k].transport = "praw" /\ fetch_log[k].ok) => Len(fetch_log) = 1
    /\ BothFailed =>
          /\ newly_confirmed_codes = <<>>
          /\ attempts = <<>>
          /\ notified_codes_set = start.set
          /\ ledger = start.ledger
          /\ pc = "sleep"
          /\ exit = "running"
          /\ cycle < MaxCycles => ENABLED Sleep

\* a later cycle in which both transports failed, the set holding a code
\* notified in an earlier cycle
C13_Witness ==
    /\ BothFailed
    /\ cycle > 1
    /\ pc = "sleep"
    /\ notified_codes_set \cap ever_ok # {}

\* the whole of s has the shape of the referral pattern
ReferralShaped(s) == Len(s) \in Ends(REFERRAL_CODE_PATTERN, s, 0, FALSE)

\* the results of extract_potential_codes_from_text under study
Extracted == {extraction.potential_codes, extraction.recased_codes}

(***************************************************************************)
(* C14: extract_potential_codes_from_text returns no token that matches    *)
(* REFERRAL_CODE_PATTERN and none of IGNORED_WORDS_SET, and for a text     *)
(* that is one referral-shaped string it returns the empty list.           *)
(***************************************************************************)
C14_NoReferralNoIgnored ==
    extraction.done =>
        /\ \A codes \in Extracted : \A k \in DOMAIN codes :
              /\ ~Match(REFERRAL_CODE_PATTERN, codes[k], FALSE)
              /\ codes[k] \notin IGNORED_WORDS_SET
        /\ ReferralShaped(Upper(extraction.text)) => extraction.potential_codes = <<>>
        /\ ReferralShaped(extraction.recased) => extraction.recased_codes = <<>>

(***************************************************************************)
(* C15: extract_potential_codes_from_text gives the same candidates for a  *)
(* text and for a re-casing of it, and every candidate it returns is       *)
(* upper-case.                                                             *)
(***************************************************************************)
C15_CaseInsensitive ==
    extraction.done =>
        /\ extraction.potential_codes = extraction.recased_codes
        /\ \A codes \in Extracted : \A k \in DOMAIN codes :
              CharsOf(codes[k]) \subseteq CharsOf(UpperLetters) \cup CharsOf(Digits)

\* a mixed-case text and a different re-casing of it, holding a candidate and
\* an ignored word
C15_Witness ==
    /\ extraction.done
    /\ extraction.text # extraction.recased
    /\ extraction.text \notin {Upper(extraction.text), Lower(extraction.text)}
    /\ extraction.potential_codes # <<>>
    /\ Len(extraction.potential_codes) <
           Len(FindAll(CANDIDATE_CODE_PATTERN, Upper(extraction.text)))

\* the posts of the listing that surface c more than once
RepeatedIn(c) ==
    {k \in DOMAIN posts :
        c \in Surfaced(k) /\ Count(current_post_extracted_codes(posts[k]), c) >= 2}

(***************************************************************************)
(* C16: a code is counted once for each post that surfaces it, however     *)
(* often the text of the post repeats it; a code surfaced by one           *)
(* non-trusted post only, and by no trusted post, is not confirmed.        *)
(***************************************************************************)
C16_CountedOncePerPost ==
    InCycle => \A c \in AllCodes :
        /\ Count(all_potential_codes_this_run, c) = Cardinality(RegularPosts(c))
        /\ Count(trusted_codes_this_run, c) = Cardinality(TrustedPosts(c))
        /\ (TrustedPosts(c) = {} /\ Cardinality(RegularPosts(c)) <= 1) =>
               /\ c \notin Range(newly_confirmed_codes)
               /\ c \notin Sent

\* a cycle whose only post with a certain code is a non-trusted one that
\* repeats it, while another code is confirmed and notified
C16_Witness ==
    /\ pc = "sleep"
    /\ attempts # <<>>
    /\ \E c \in AllCodes :
          /\ c \notin notified_codes_set
          /\ TrustedPosts(c) = {}
          /\ Cardinality(RegularPosts(c)) = 1
          /\ RepeatedIn(c) = RegularPosts(c)

(***************************************************************************)
(* C18: no step removes a code from notified_codes_set or a line from the  *)
(* ledger: the set only gains codes, the ledger only gains lines at its    *)
(* end, and when a cycle returns the set holds every code of the set the   *)
(* cycle was given.                                                        *)
(***************************************************************************)
C18_OnlyGrow ==
    [][/\ notified_codes_set \subseteq notified_codes_set'
       /\ Len(ledger) <= Len(ledger')
       /\ SubSeq(ledger', 1, Len(ledger)) = ledger
       /\ pc' = "sleep" => start'.set \subseteq notified_codes_set']_vars

\* a later cycle that was given a set and a ledger that were not empty and
\* returned with a code added to the set and a line appended
C18_Witness ==
    /\ pc = "sleep"
    /\ cycle > 1
    /\ start.set # {}
    /\ start.ledger # <<>>
    /\ notified_codes_set # start.set
    /\ Len(ledger) > Len(start.ledger)

\* the calls of notify_ntfy of the cycle for code c
AttemptsFor(c) == {k \in DOMAIN attempts : attempts[k].code = c}

(***************************************************************************)
(* C19: when a cycle returns, notify_ntfy has been called exactly once for *)
(* every confirmed code, whatever the other calls returned, and every code *)
(* it returned True for is in notified_codes_set and, unless a write       *)
(* failed, in the lines appended to the ledger.                            *)
(***************************************************************************)
C19_PassNotEndedByFailure ==
    pc = "sleep" =>
        /\ \A c \in Range(newly_confirmed_codes) : Cardinality(AttemptsFor(c)) = 1
        /\ Sent \subseteq Range(newly_confirmed_codes)
        /\ SentOk \subseteq notified_codes_set
        /\ Len(AppendedThisCycle) = Cardinality({k \in DOMAIN attempts : attempts[k].ok}) =>
               SentOk \subseteq Range(AppendedThisCycle)

(***************************************************************************)
(* C20: when a cycle returns, every code of the ledger is in               *)
(* notified_codes_set.                                                     *)
(***************************************************************************)
C20_LedgerWithinSet ==
    pc = "sleep" => Range(ledger) \subseteq notified_codes_set

\* notify_ntfy returned False for code c in this cycle
FailedFor(c) == \E k \in DOMAIN attempts : attempts[k].code = c /\ ~attempts[k].ok

(***************************************************************************)
(* C17: when notify_ntfy has returned False for a confirmed code, and the  *)
(* later cycles fetch posts that confirm it again, and notify_ntfy does    *)
(* not return False for it for ever, then notify_ntfy eventually returns   *)
(* True for the code and it is in notified_codes_set.                      *)
(***************************************************************************)
C17_AtLeastOnce ==
    \A c \in AllCodes :
        FailedFor(c) ~> (c \in ever_ok /\ c \in notified_codes_set)

\* a cycle after MaxCycles - 1 cycles over the same posts, in which a code
\* not in the set so far is notified and added
C17_Witness ==
    /\ pc = "sleep"
    /\ cycle = MaxCycles
    /\ \E c \in SentOk : c \in notified_codes_set /\ c \notin start.set

====
